---- MODULE Spec2Model ----
(***************************************************************************)
(* Model of tensorflow_datasets/core/features/translation_feature.py:      *)
(* the Translation and TranslationVariableLanguages feature connectors     *)
(* and the language-list metadata file they share.                         *)
(*                                                                         *)
(* A Python str is a sequence of code points (naturals), compared          *)
(* lexicographically as Python compares str.  A set is a TLA+ set; None    *)
(* is kept apart from the empty set by a record with a `none` flag.        *)
(***************************************************************************)
EXTENDS Naturals, Sequences, FiniteSets

VARIABLES
  tKeys,       \* Translation: the keys of the FeaturesDict (one Text per language)
  tLanguages,  \* Translation: self._languages, a set
  vLanguages,  \* TranslationVariableLanguages: self._languages, None or a set
  fs,          \* the file system: path -> [exists, data]
  example,     \* the translation_dict the data generator hands to encode_example
  last         \* the last call made and what it returned or raised

vars == <<tKeys, tLanguages, vLanguages, fs, example, last>>

(***************************************************************************)
(* Bounds of the model.                                                    *)
(***************************************************************************)
\* longest `languages` list given to a constructor
MaxLangs == 2
\* most entries of a translation_dict given to encode_example
MaxKeys == 2
\* most translations listed for one language of a translation_dict
MaxItems == 2

(***************************************************************************)
(* Characters and strings.                                                 *)
(***************************************************************************)
\* "\n", the line separator of the languages file
NL == 10
\* " ", second character of the ", " separator of the error message
SP == 32
\* ",", first character of the ", " separator of the error message
COMMA == 44

\* c.isspace() for the ASCII range: what str.strip() removes
IsSpace(c) == c \in {9, 10, 11, 12, 13, 28, 29, 30, 31, 32}

\* The language codes of the model: "", "a", "b", " a" (leading blank) and
\* "a\nb" (a newline inside).
Codes == { <<>>, <<97>>, <<98>>, <<32, 97>>, <<97, 10, 98>> }

\* The translation texts of the model: "x", "y".
Texts == { <<120>>, <<121>> }

\* All sequences over S of length at most n.
SeqsUpTo(S, n) == UNION { [1..k -> S] : k \in 0..n }

Range(s) == { s[i] : i \in 1..Len(s) }

\* Python's a < b on str: the first differing code point decides, a proper
\* prefix is smaller.
StrLess(a, b) ==
  \E i \in 1..Len(b) :
    /\ i <= Len(a) + 1
    /\ \A j \in 1..(i - 1) : a[j] = b[j]
    /\ (i > Len(a) \/ a[i] < b[i])

\* Variant: tuples compared by their language code alone.
TupleLess_languageOnly(p, q) == StrLess(p[1], q[1])

\* Python's p < q on 2-tuples of str.
TupleLess(p, q) == StrLess(p[1], q[1]) \/ (p[1] = q[1] /\ StrLess(p[2], q[2]))

\* sep.join(parts)
RECURSIVE Join(_, _)
Join(sep, parts) ==
  IF parts = <<>> THEN <<>>
  ELSE IF Len(parts) = 1 THEN parts[1]
  ELSE parts[1] \o sep \o Join(sep, Tail(parts))

\* s.split(sep) for a one-character separator: always at least one piece.
RECURSIVE Split(_, _)
Split(s, sep) ==
  IF \A i \in 1..Len(s) : s[i] # sep THEN << s >>
  ELSE LET k == CHOOSE i \in 1..Len(s) :
                  s[i] = sep /\ \A j \in 1..(i - 1) : s[j] # sep
       IN  << SubSeq(s, 1, k - 1) >> \o Split(SubSeq(s, k + 1, Len(s)), sep)

\* s.strip(): leading and trailing whitespace removed.
RECURSIVE Strip(_)
Strip(s) ==
  IF s = <<>> THEN s
  ELSE IF IsSpace(s[1]) THEN Strip(Tail(s))
  ELSE IF IsSpace(s[Len(s)]) THEN Strip(SubSeq(s, 1, Len(s) - 1))
  ELSE s

\* One step of sorted(): x put before the first element greater than it.
RECURSIVE InsertStr(_, _)
InsertStr(x, s) ==
  IF s = <<>> THEN << x >>
  ELSE IF StrLess(x, s[1]) THEN << x >> \o s
  ELSE << s[1] >> \o InsertStr(x, Tail(s))

\* sorted(list of str)
RECURSIVE SortedStrs(_)
SortedStrs(s) ==
  IF s = <<>> THEN <<>> ELSE InsertStr(s[Len(s)], SortedStrs(SubSeq(s, 1, Len(s) - 1)))

RECURSIVE InsertTuple(_, _)
InsertTuple(x, s) ==
  IF s = <<>> THEN << x >>
  ELSE IF TupleLess(x, s[1]) THEN << x >> \o s
  ELSE << s[1] >> \o InsertTuple(x, Tail(s))

\* sorted(list of (str, str) tuples)
RECURSIVE SortedTuples(_)
SortedTuples(s) ==
  IF s = <<>> THEN <<>>
  ELSE InsertTuple(s[Len(s)], SortedTuples(SubSeq(s, 1, Len(s) - 1)))

\* The orders in which iterating over the set S may yield its elements.
Orders(S) ==
  { o \in [1..Cardinality(S) -> S] : \A i, j \in 1..Cardinality(S) : o[i] = o[j] => i = j }

\* Some iteration order of a set, for consumers whose result does not depend on it.
SetToList(S) == CHOOSE o \in Orders(S) : TRUE

(***************************************************************************)
(* The languages file.                                                     *)
(***************************************************************************)
DataDirs == { "data_dir" }
FeatureNames == { "en_fr" }

\* os.path.join(data_dir, "{}.languages.txt".format(feature_name))
get_languages_filepath(data_dir, feature_name) ==
  << data_dir, "/", feature_name, ".languages.txt" >>

Paths == { get_languages_filepath(d, n) : d \in DataDirs, n \in FeatureNames }

NoFile == [exists |-> FALSE, data |-> <<>>]

\* tf.io.gfile.exists(path)
gfile_exists(fsys, path) == fsys[path].exists

\* Variant: the empty pieces are kept.
load_languages_from_file_keepEmpty(fsys, languages_filepath) ==
  IF ~fsys[languages_filepath].exists
  THEN [raised |-> "NotFoundError", value |-> {}]
  ELSE LET pieces == Split(fsys[languages_filepath].data, NL)
       IN  [raised |-> "", value |-> { Strip(pieces[i]) : i \in 1..Len(pieces) }]

\* Reading a file that does not exist raises; otherwise the content is split on
\* "\n", each piece stripped, and the empty pieces dropped.
load_languages_from_file(fsys, languages_filepath) ==
  IF ~fsys[languages_filepath].exists
  THEN [raised |-> "NotFoundError", value |-> {}]
  ELSE LET pieces == Split(fsys[languages_filepath].data, NL)
       IN  [raised |-> "",
            value  |-> { Strip(pieces[i]) :
                           i \in { k \in 1..Len(pieces) : Strip(pieces[k]) # <<>> } }]

\* f.write("\n".join(languages) + "\n"); `order` is the order in which the
\* set `languages` is iterated.
write_languages_to_file(fsys, languages_filepath, order) ==
  [fsys EXCEPT ![languages_filepath] =
     [exists |-> TRUE, data |-> Join(<< NL >>, order) \o << NL >>]]

(***************************************************************************)
(* class Translation                                                       *)
(***************************************************************************)
\* self._languages = set(languages); one Text sub-feature per language.
Translation_init(languages) ==
  [languages |-> Range(languages),
   keys      |-> { languages[i] : i \in 1..Len(languages) }]

\* Variant: list(self._languages), not sorted.
Translation_languages_unsorted(self_languages) == SetToList(self_languages)

\* sorted(self._languages)
Translation_languages(self_languages) == SortedStrs(SetToList(self_languages))

Translation_save_metadata(self_languages, fsys, data_dir, feature_name, order) ==
  write_languages_to_file(fsys, get_languages_filepath(data_dir, feature_name), order)

\* Variant: a missing file is skipped, as TranslationVariableLanguages does.
Translation_load_metadata_lenient(self_languages, fsys, data_dir, feature_name) ==
  IF fsys[get_languages_filepath(data_dir, feature_name)].exists
  THEN [raised |-> "",
        languages |-> load_languages_from_file(
                        fsys, get_languages_filepath(data_dir, feature_name)).value]
  ELSE [raised |-> "", languages |-> self_languages]

\* The assignment to self._languages happens only if the read did not raise.
Translation_load_metadata(self_languages, fsys, data_dir, feature_name) ==
  LET r == load_languages_from_file(fsys, get_languages_filepath(data_dir, feature_name))
  IN  IF r.raised # "" THEN [raised |-> r.raised, languages |-> self_languages]
      ELSE [raised |-> "", languages |-> r.value]

(***************************************************************************)
(* class TranslationVariableLanguages                                      *)
(***************************************************************************)
None == [none |-> TRUE, elems |-> {}]
SomeSet(S) == [none |-> FALSE, elems |-> S]

\* Python truth of self._languages: neither None nor the empty set.
Truthy(self_languages) == ~self_languages.none /\ self_languages.elems # {}

\* set(languages) if languages else None; `languages` is None or a list.
TVL_init(languages) ==
  IF ~languages.none /\ languages.list # <<>> THEN SomeSet(Range(languages.list)) ELSE None

\* Variant: len(self._languages) if self._languages is not None else None
TVL_num_languages_isNotNone(self_languages) ==
  IF ~self_languages.none
  THEN [none |-> FALSE, n |-> Cardinality(self_languages.elems)]
  ELSE [none |-> TRUE, n |-> 0]

\* len(self._languages) if self._languages else None
TVL_num_languages(self_languages) ==
  IF Truthy(self_languages)
  THEN [none |-> FALSE, n |-> Cardinality(self_languages.elems)]
  ELSE [none |-> TRUE, n |-> 0]

\* sorted(list(self._languages)) if self._languages else None
TVL_languages(self_languages) ==
  IF Truthy(self_languages)
  THEN [none |-> FALSE, list |-> SortedStrs(SetToList(self_languages.elems))]
  ELSE [none |-> TRUE, list |-> <<>>]

\* A value of a translation_dict: one str, or a list of str.
StrValue(t) == [isStr |-> TRUE, s |-> t, items |-> <<>>]
ListValue(ts) == [isStr |-> FALSE, s |-> <<>>, items |-> ts]

\* Variant: a list is appended as one item (its first translation) like a str.
RECURSIVE translation_tuples_appendOnly(_)
translation_tuples_appendOnly(items) ==
  IF items = <<>> THEN <<>>
  ELSE LET l == items[1][1]
           t == items[1][2]
       IN  (IF t.isStr THEN << << l, t.s >> >>
            ELSE IF t.items = <<>> THEN <<>>
            ELSE << << l, t.items[1] >> >>)
           \o translation_tuples_appendOnly(Tail(items))

\* The loop over translation_dict.items(): append for a str, extend for a list.
RECURSIVE translation_tuples(_)
translation_tuples(items) ==
  IF items = <<>> THEN <<>>
  ELSE LET l == items[1][1]
           t == items[1][2]
       IN  (IF t.isStr THEN << << l, t.s >> >>
            ELSE [i \in 1..Len(t.items) |-> << l, t.items[i] >>])
           \o translation_tuples(Tail(items))

\* zip(*rows) for rows of 2-tuples: no rows give nothing, otherwise two columns.
Zip(rows) ==
  IF rows = <<>> THEN <<>>
  ELSE [k \in 1..2 |-> [i \in 1..Len(rows) |-> rows[i][k]]]

DictKeys(translation_dict) == { translation_dict[i][1] : i \in 1..Len(translation_dict) }

\* Variant: the difference taken the other way round.
InvalidLanguages_reversed(self_languages, translation_dict) ==
  self_languages.elems \ DictKeys(translation_dict)

\* set(translation_dict) - self._languages
InvalidLanguages(self_languages, translation_dict) ==
  DictKeys(translation_dict) \ self_languages.elems

NoResult == [raised |-> "", msg |-> <<>>, encoded |-> FALSE,
             language |-> <<>>, translation |-> <<>>]

\* encode_example up to the call of SequenceDict.encode_example, which gets
\* `language` and `translation` (encoded = TRUE).
TVL_encode_example(self_languages, translation_dict) ==
  LET languages == TVL_languages(self_languages)
  IN  IF /\ ~languages.none
         /\ languages.list # <<>>
         /\ InvalidLanguages(self_languages, translation_dict) # {}
      THEN [NoResult EXCEPT
              !.raised = "ValueError",
              !.msg = << "Some languages in example (",
                         Join(<< COMMA, SP >>,
                              SortedStrs(SetToList(
                                InvalidLanguages(self_languages, translation_dict)))),
                         ") are not in valid set (",
                         Join(<< COMMA, SP >>, languages.list),
                         ")." >>]
      ELSE LET columns == Zip(SortedTuples(translation_tuples(translation_dict)))
           IN  IF Len(columns) # 2
               THEN [NoResult EXCEPT
                       !.raised = "ValueError",
                       !.msg = << "not enough values to unpack (expected 2, got 0)" >>]
               ELSE [NoResult EXCEPT
                       !.encoded = TRUE,
                       !.language = columns[1],
                       !.translation = columns[2]]

\* Variant: the file is written whether or not languages are known.
TVL_save_metadata_always(self_languages, fsys, data_dir, feature_name, order) ==
  write_languages_to_file(fsys, get_languages_filepath(data_dir, feature_name), order)

\* Writes the file only if self.languages is truthy.
TVL_save_metadata(self_languages, fsys, data_dir, feature_name, order) ==
  IF ~TVL_languages(self_languages).none /\ TVL_languages(self_languages).list # <<>>
  THEN write_languages_to_file(fsys, get_languages_filepath(data_dir, feature_name), order)
  ELSE fsys

\* Reads the file only if it exists.
TVL_load_metadata(self_languages, fsys, data_dir, feature_name) ==
  IF gfile_exists(fsys, get_languages_filepath(data_dir, feature_name))
  THEN LET r == load_languages_from_file(fsys,
                                         get_languages_filepath(data_dir, feature_name))
       IN  IF r.raised # "" THEN [raised |-> r.raised, languages |-> self_languages]
           ELSE [raised |-> "", languages |-> SomeSet(r.value)]
  ELSE [raised |-> "", languages |-> self_languages]

(***************************************************************************)
(* Inputs.                                                                 *)
(***************************************************************************)
\* The `languages` argument of a constructor: a list of codes.
LanguageLists(codes) == SeqsUpTo(codes, MaxLangs)

\* languages=None, or a list
OptionalLanguageLists(codes) ==
  { [none |-> TRUE, list |-> <<>>] }
    \cup { [none |-> FALSE, list |-> l] : l \in LanguageLists(codes) }

Values ==
  { StrValue(t) : t \in Texts } \cup { ListValue(ts) : ts \in SeqsUpTo(Texts, MaxItems) }

\* The codes of the examples whose encoding is checked: "a", "b", " a".
EncodeCodes == { <<97>>, <<98>>, <<32, 97>> }

\* A translation_dict: a mapping from at most MaxKeys codes to values.
Dicts ==
  UNION { [K -> Values] : K \in { S \in SUBSET EncodeCodes : Cardinality(S) <= MaxKeys } }

\* The examples offered while metadata is saved and loaded: {}, {" a": "x"}.
SmallDicts ==
  { d \in UNION { [K -> { StrValue(<<120>>) }] : K \in SUBSET Codes } :
      DOMAIN d \in { {}, { <<32, 97>> } } }

\* translation_dict.items(), iterated in the order `order` of its keys.
DictItems(translation_dict, order) ==
  [i \in 1..Len(order) |-> << order[i], translation_dict[order[i]] >>]

(***************************************************************************)
(* The state machine.                                                      *)
(***************************************************************************)
NoCall == [op |-> "__init__", path |-> << >>, languages_arg |-> << >>, result |-> NoResult]

InitWith(tArgs, vArgs, examples) ==
  /\ \E languages \in tArgs :
        /\ tLanguages = Translation_init(languages).languages
        /\ tKeys = Translation_init(languages).keys
        /\ last = [NoCall EXCEPT !.languages_arg = languages]
  /\ \E languages \in vArgs : vLanguages = TVL_init(languages)
  /\ fs = [p \in Paths |-> NoFile]
  /\ example \in examples

Init == InitWith(LanguageLists(Codes), OptionalLanguageLists(Codes), SmallDicts)

InitEncode == InitWith({ << >> }, OptionalLanguageLists(EncodeCodes), Dicts)

Translation_save(data_dir, feature_name) ==
  \E order \in Orders(tLanguages) :
    /\ fs' = Translation_save_metadata(tLanguages, fs, data_dir, feature_name, order)
    /\ last' = [NoCall EXCEPT !.op = "Translation.save_metadata",
                              !.path = get_languages_filepath(data_dir, feature_name)]
    /\ UNCHANGED <<tKeys, tLanguages, vLanguages, example>>

Translation_load(data_dir, feature_name) ==
  LET r == Translation_load_metadata(tLanguages, fs, data_dir, feature_name)
  IN  /\ tLanguages' = r.languages
      /\ last' = [NoCall EXCEPT !.op = "Translation.load_metadata",
                                !.path = get_languages_filepath(data_dir, feature_name),
                                !.result.raised = r.raised]
      /\ UNCHANGED <<tKeys, vLanguages, fs, example>>

TVL_save(data_dir, feature_name) ==
  \E order \in Orders(vLanguages.elems) :
    /\ fs' = TVL_save_metadata(vLanguages, fs, data_dir, feature_name, order)
    /\ last' = [NoCall EXCEPT !.op = "TranslationVariableLanguages.save_metadata",
                              !.path = get_languages_filepath(data_dir, feature_name)]
    /\ UNCHANGED <<tKeys, tLanguages, vLanguages, example>>

TVL_load(data_dir, feature_name) ==
  LET r == TVL_load_metadata(vLanguages, fs, data_dir, feature_name)
  IN  /\ vLanguages' = r.languages
      /\ last' = [NoCall EXCEPT !.op = "TranslationVariableLanguages.load_metadata",
                                !.path = get_languages_filepath(data_dir, feature_name),
                                !.result.raised = r.raised]
      /\ UNCHANGED <<tKeys, tLanguages, fs, example>>

TVL_encode ==
  \E order \in Orders(DOMAIN example) :
    /\ last' = [NoCall EXCEPT !.op = "TranslationVariableLanguages.encode_example",
                              !.result = TVL_encode_example(vLanguages,
                                                            DictItems(example, order))]
    /\ UNCHANGED <<tKeys, tLanguages, vLanguages, fs, example>>

Next ==
  \/ \E d \in DataDirs, n \in FeatureNames : Translation_save(d, n)
  \/ \E d \in DataDirs, n \in FeatureNames : Translation_load(d, n)
  \/ \E d \in DataDirs, n \in FeatureNames : TVL_save(d, n)
  \/ \E d \in DataDirs, n \in FeatureNames : TVL_load(d, n)
  \/ TVL_encode

Spec == Init /\ [][Next]_vars

NextEncode == TVL_encode

SpecEncode == InitEncode /\ [][NextEncode]_vars

(***************************************************************************)
(* Vocabulary of the properties.                                           *)
(***************************************************************************)
IsEncode == last.op = "TranslationVariableLanguages.encode_example"

\* The ValueError raised by the allow-list check of encode_example.
IsValidationError(r) ==
  /\ r.raised = "ValueError"
  /\ Len(r.msg) = 5
  /\ r.msg[1] = "Some languages in example ("

StrictlyAscending(list) ==
  \A i \in 1..(Len(list) - 1) : StrLess(list[i], list[i + 1])

\* `text` is the elements of S in ascending order, joined by ", ".
IsSortedListing(text, S) ==
  \E o \in Orders(S) : StrictlyAscending(o) /\ text = Join(<< COMMA, SP >>, o)

\* Number of (language, translation) pairs a value stands for.
PairCount(v) == IF v.isStr THEN 1 ELSE Len(v.items)

RECURSIVE TotalPairs(_, _)
TotalPairs(d, K) ==
  IF K = {} THEN 0
  ELSE LET k == CHOOSE x \in K : TRUE
       IN  PairCount(d[k]) + TotalPairs(d, K \ { k })

\* t is a translation the example gives for language l.
IsPairOf(d, l, t) ==
  /\ l \in DOMAIN d
  /\ IF d[l].isStr THEN t = d[l].s ELSE t \in Range(d[l].items)

\* A code that survives being written on a line of its own and read back.
Clean(c) ==
  /\ c # <<>>
  /\ \A i \in 1..Len(c) : c[i] # NL
  /\ ~IsSpace(c[1])
  /\ ~IsSpace(c[Len(c)])

\* Reading the file just written gives the set L, and `languages` lists it.
ReadsBack(L) ==
  LET r == load_languages_from_file(fs, last.path)
  IN  /\ r.raised = ""
      /\ r.value = L
      /\ StrictlyAscending(Translation_languages(r.value))
      /\ Range(Translation_languages(r.value)) = L

(***************************************************************************)
(* C1: for an instance that reports an allow-list A, encode_example(m)     *)
(* raises the validation error exactly when keys(m) - A is non-empty, and  *)
(* the message then lists keys(m) - A and A, each ascending and joined by  *)
(* ", ".                                                                   *)
(***************************************************************************)
C1_ValidationIffOutsideAllowList ==
  (IsEncode /\ ~TVL_languages(vLanguages).none) =>
    LET extra == DOMAIN example \ vLanguages.elems
    IN  /\ IsValidationError(last.result) <=> extra # {}
        /\ extra # {} =>
             /\ IsSortedListing(last.result.msg[2], extra)
             /\ IsSortedListing(last.result.msg[4], vLanguages.elems)

C1_Witness ==
  /\ IsEncode
  /\ ~TVL_languages(vLanguages).none
  /\ Cardinality(DOMAIN example \ vLanguages.elems) >= 2
  /\ IsValidationError(last.result)

C5_EmptyExampleEncodes ==
  (IsEncode /\ DOMAIN example = {}) =>
    /\ last.result.raised = ""
    /\ last.result.encoded
    /\ last.result.language = <<>>
    /\ last.result.translation = <<>>

(***************************************************************************)
(* C6: in the output of encode_example a language given one string has     *)
(* exactly one pair, a language given a list of N strings has exactly N    *)
(* pairs, and the output length is the sum of these counts.                *)
(***************************************************************************)
C6_PairsPerLanguage ==
  (IsEncode /\ last.result.encoded) =>
    /\ \A l \in Codes :
         Cardinality({ i \in 1..Len(last.result.language) : last.result.language[i] = l })
           = IF l \in DOMAIN example THEN PairCount(example[l]) ELSE 0
    /\ Len(last.result.language) = TotalPairs(example, DOMAIN example)
    /\ Len(last.result.translation) = TotalPairs(example, DOMAIN example)

C6_Witness ==
  /\ IsEncode
  /\ last.result.encoded
  /\ \E k, l \in DOMAIN example :
       /\ example[k].isStr
       /\ ~example[l].isStr
       /\ Len(example[l].items) = 2
       /\ Len(last.result.language) = 3

(***************************************************************************)
(* C3 as stated: whatever set L save_metadata wrote, reading the file      *)
(* gives back a set equal to L, which `languages` lists in ascending       *)
(* order.                                                                  *)
(***************************************************************************)
C3_RoundTripAnyCodes ==
  /\ last.op = "Translation.save_metadata" => ReadsBack(tLanguages)
  /\ (last.op = "TranslationVariableLanguages.save_metadata" /\ Truthy(vLanguages)) =>
       ReadsBack(vLanguages.elems)

(***************************************************************************)
(* C3 amended: the round trip gives back L when every code of L is         *)
(* non-empty, holds no newline, and neither starts nor ends with           *)
(* whitespace.                                                             *)
(***************************************************************************)
C3_RoundTripCleanCodes ==
  /\ (last.op = "Translation.save_metadata" /\ \A c \in tLanguages : Clean(c)) =>
       ReadsBack(tLanguages)
  /\ (/\ last.op = "TranslationVariableLanguages.save_metadata"
      /\ Truthy(vLanguages)
      /\ \A c \in vLanguages.elems : Clean(c)) =>
       ReadsBack(vLanguages.elems)

C3_Witness ==
  /\ last.op = "Translation.save_metadata"
  /\ Cardinality(tLanguages) = 2
  /\ \A c \in tLanguages : Clean(c)
  /\ fs[last.path].exists
  /\ ~StrictlyAscending(Split(fs[last.path].data, NL))

(***************************************************************************)
(* C4: the languages a Translation reports are the keys of its text        *)
(* sub-features, in every state.                                           *)
(***************************************************************************)
C4_LanguagesAreKeys == Range(Translation_languages(tLanguages)) = tKeys

(***************************************************************************)
(* C7: TranslationVariableLanguages.save_metadata writes nothing while no  *)
(* allow-list is reported; load_metadata of a missing file raises nothing  *)
(* and leaves the allow-list as it was, so an unknown `languages` and      *)
(* `num_languages` stay unknown.                                           *)
(***************************************************************************)
C7_NoAllowListNoFile ==
  [][ /\ (/\ last'.op = "TranslationVariableLanguages.save_metadata"
          /\ TVL_languages(vLanguages).none) => fs' = fs
      /\ (/\ last'.op = "TranslationVariableLanguages.load_metadata"
          /\ ~gfile_exists(fs, last'.path)) =>
            /\ last'.result.raised = ""
            /\ vLanguages' = vLanguages
            /\ TVL_languages(vLanguages).none =>
                 /\ TVL_languages(vLanguages').none
                 /\ TVL_num_languages(vLanguages').none ]_vars

C7_Witness ==
  /\ last.op = "TranslationVariableLanguages.load_metadata"
  /\ ~gfile_exists(fs, last.path)
  /\ last.result.raised = ""
  /\ vLanguages.none
  /\ TVL_languages(vLanguages).none

(***************************************************************************)
(* C8: Translation.load_metadata raises when the languages file does not   *)
(* exist (and keeps its languages), while                                  *)
(* TranslationVariableLanguages.load_metadata raises nothing then.         *)
(***************************************************************************)
C8_MissingFileIsFatalForTranslation ==
  [][ /\ (/\ last'.op = "Translation.load_metadata"
          /\ ~gfile_exists(fs, last'.path)) =>
            /\ last'.result.raised # ""
            /\ tLanguages' = tLanguages
      /\ (/\ last'.op = "TranslationVariableLanguages.load_metadata"
          /\ ~gfile_exists(fs, last'.path)) => last'.result.raised = "" ]_vars

C8_Witness ==
  /\ last.op = "Translation.load_metadata"
  /\ ~gfile_exists(fs, last.path)
  /\ last.result.raised = "NotFoundError"

(***************************************************************************)
(* C9: Translation.languages is strictly ascending (so without             *)
(* duplicates) and lists exactly the set of languages held; right after    *)
(* construction that is the set of the codes given, whatever their order   *)
(* and repetition.                                                         *)
(***************************************************************************)
C9_LanguagesSorted ==
  /\ StrictlyAscending(Translation_languages(tLanguages))
  /\ Range(Translation_languages(tLanguages)) = tLanguages
  /\ last.op = "__init__" =>
       Range(Translation_languages(tLanguages)) = Range(last.languages_arg)

C9_Witness ==
  /\ last.op = "__init__"
  /\ \E i, j \in 1..Len(last.languages_arg) :
       i < j /\ StrLess(last.languages_arg[j], last.languages_arg[i])
  /\ Len(Translation_languages(tLanguages)) = 2

(***************************************************************************)
(* C10: num_languages is None exactly when languages is None; otherwise    *)
(* languages is a non-empty strictly ascending list of the allow-list and  *)
(* num_languages is its length.  An empty allow-list is reported as None   *)
(* and encode_example then raises no validation error.                     *)
(***************************************************************************)
C10_AccessorsAgree ==
  LET n == TVL_num_languages(vLanguages)
      l == TVL_languages(vLanguages)
  IN  /\ n.none <=> l.none
      /\ ~l.none =>
           /\ l.list # <<>>
           /\ StrictlyAscending(l.list)
           /\ Range(l.list) = vLanguages.elems
           /\ n.n = Len(l.list)
      /\ (vLanguages.none \/ vLanguages.elems = {}) <=> l.none
      /\ (IsEncode /\ l.none) => ~IsValidationError(last.result)

C10_Witness ==
  /\ ~vLanguages.none
  /\ vLanguages.elems = {}
  /\ TVL_languages(vLanguages).none
  /\ IsEncode
  /\ DOMAIN example # {}
  /\ last.result.encoded

====
